---- MODULE Spec2Model ----
(***************************************************************************)
(* Model of src/core/bot.js (class HyperWaBot): the connection supervisor  *)
(* (initialize, startConnection, handleConnectionUpdate, shutdown) and the *)
(* event router (setupEventHandlers), and the public calls sendMessage and  *)
(* getMessage.                                                             *)
(*                                                                         *)
(* JavaScript runs one callback at a time: every action below is one run   *)
(* of the event loop, from the arrival of an event or the settling of an   *)
(* awaited promise up to the next await.  An awaited call of a             *)
(* collaborator (auth provider, version discovery, module loader, bridge,  *)
(* timer) settles in a later action, with either outcome (resolved or      *)
(* rejected) where the collaborator may reject.                            *)
(***************************************************************************)
EXTENDS Integers, Sequences, FiniteSets

(* ------------------------------------------------------------------ *)
(* Bounds of the model                                                 *)
(* ------------------------------------------------------------------ *)

\* startConnection is invoked at most MaxHandles times in a run
MaxHandles == 6

\* at most MaxOpens handles reach connection = 'open' in a run
MaxOpens == 2

\* an event batch holds at most MaxKinds event kinds
MaxKinds == 2

\* a contacts.update payload holds at most MaxContacts contacts
MaxContacts == 2

\* a call payload holds at most MaxCallEvents calls
MaxCallEvents == 2

\* the session store is asked for, and fed with, at most MaxKeys message keys
MaxKeys == 2

(* ------------------------------------------------------------------ *)
(* Program constants                                                   *)
(* ------------------------------------------------------------------ *)

\* this.maxRetries = 5
maxRetries == 5

\* the base of the backoff, 1000 ms
BackoffBase == 1000

\* the cap of the backoff, 30000 ms
BackoffCap == 30000

HandleIds == 1..MaxHandles

(* ------------------------------------------------------------------ *)
(* State                                                               *)
(* ------------------------------------------------------------------ *)

VARIABLES
    sock,            \* this.sock: the id of the current handle, 0 = null
    store,           \* this.store: the startConnection call that made it, 0 = null
    storeBound,      \* the handle whose event stream this.store is bound to, 0 = none
    isInitialized,   \* this.isInitialized
    retryCount,      \* this.retryCount
    telegramBridge,  \* this.telegramBridge is not null
    telegramEnabled, \* config.get('telegram.enabled')
    handle,          \* transport state of the handle made by the k-th startConnection
    routed,          \* handles on which setupEventHandlers registered the router
    startCalls,      \* number of startConnection invocations so far
    initTask,        \* the activation of initialize()
    closeTask,       \* the activation of handleConnectionUpdate for the latest 'close'
    openPc,          \* per handle: the activation of handleConnectionUpdate for its 'open'
    builtBy,         \* handles whose 'open' activation ran `new TelegramBridge(this)`
    shutdownPc,      \* the activation of shutdown()
    endCalls,        \* handles on which shutdown() called sock.end()
    notifications,   \* number of telegramBridge.sendToAllUsers calls issued
    prevDelay,       \* retryDelay of the previous reconnect since the last 'open', 0 = none
    streak,          \* transient closes that led to a reconnect since the last 'open'
    rbatch,          \* the event batch the router callback was invoked with
    rpc,             \* the router callback: idle, await, returned or rejected
    rpos,            \* the place in KindOrder of the kind whose handler is awaited
    rsub,            \* the contact or call, within the payload, that is awaited
    rphase,          \* where the awaited handleConnectionUpdate stands
    processed,       \* kinds of the batch whose handling has completed
    lookups,         \* contacts for which sock.profilePictureUrl was called, in order
    lookupResults,   \* how the lookups settled, in order: url, null or rejected
    picLogs,         \* contacts logged as having a new profile pic
    forwarded,       \* calls passed to telegramBridge.handleCallNotification, in order
    sendResult,      \* what the latest sendMessage() call did
    messages,        \* per message key, what this.store holds for it
    getResult        \* the key and the result of the latest getMessage() call

lifeVars == <<sock, store, storeBound, isInitialized, retryCount, telegramBridge,
              telegramEnabled, handle, routed, startCalls, initTask, closeTask,
              openPc, builtBy, shutdownPc, endCalls, notifications, prevDelay, streak>>

routerVars == <<rbatch, rpc, rpos, rsub, rphase, processed, lookups, lookupResults,
                picLogs, forwarded>>

apiVars == <<sendResult, messages, getResult>>

vars == <<lifeVars, routerVars, apiVars>>

(* ------------------------------------------------------------------ *)
(* Disconnect causes: lastDisconnect?.error                            *)
(* ------------------------------------------------------------------ *)

\* absent: no error object; boomLoggedOut: a Boom whose output.statusCode is
\* DisconnectReason.loggedOut; boomOther: a Boom with any other status code;
\* plainError: an error that is not a Boom
Causes == {"absent", "boomLoggedOut", "boomOther", "plainError"}

\* lastDisconnect?.error instanceof Boom
IsBoom(cause) == cause \in {"boomLoggedOut", "boomOther"}

\* lastDisconnect.error.output?.statusCode
StatusCode(cause) ==
    CASE cause = "boomLoggedOut" -> "loggedOut"
      [] cause = "boomOther" -> "other"
      [] OTHER -> "undefined"

ShouldReconnectNoDefault(cause) == IsBoom(cause) /\ StatusCode(cause) # "loggedOut"

ShouldReconnectAlways(cause) == TRUE

\* const shouldReconnect = (error instanceof Boom) ? statusCode !== loggedOut : true
ShouldReconnect(cause) ==
    IF IsBoom(cause) THEN StatusCode(cause) # "loggedOut" ELSE TRUE

CanRetryInclusive(rc) == rc <= maxRetries

CanRetryAlways(rc) == TRUE

\* if (this.retryCount < this.maxRetries)
CanRetry(rc) == rc < maxRetries

Min(a, b) == IF a <= b THEN a ELSE b

RetryDelayUncapped(n) == BackoffBase * 2^n

\* Math.min(1000 * Math.pow(2, this.retryCount), 30000), n the incremented retryCount
RetryDelay(n) == Min(BackoffBase * 2^n, BackoffCap)

RetryCountKept(rc) == rc

\* this.retryCount = 0, on 'open'
RetryCountOnOpen(rc) == 0

NeedsBridgeAlways(tb) == TRUE

\* if (!this.telegramBridge)
NeedsBridge(tb) == ~tb

IsCloseOrConnecting(connection) == connection # "open"

\* if (connection === 'close')
IsClose(connection) == connection = "close"

\* if (connection === 'open')
IsOpen(connection) == connection = "open"

(* ------------------------------------------------------------------ *)
(* Initial state: the constructor                                      *)
(* ------------------------------------------------------------------ *)

\* The record of a 'close' activation: pc, where it stands; cause, the disconnect
\* cause (kept until the backoff delay has elapsed); rc, retryCount as read at
\* line 215; retryDelay; prev, the retryDelay of
\* the reconnect before it since the last 'open' (0 = none); call, the
\* startConnection call it made (0 = none); bridge, whether this.telegramBridge
\* was set when the terminal branch read it; nth, its rank among the transient
\* closes since the last 'open' (0 for a logout close)
IdleClose == [pc |-> "idle", cause |-> "absent", rc |-> 0, retryDelay |-> 0,
              prev |-> 0, call |-> 0, bridge |-> FALSE, nth |-> 0]

\* no batch: the router callback has not been invoked
NoBatch == [kinds |-> {}, update |-> "none", cause |-> "absent", contacts |-> <<>>,
            calls |-> <<>>]

\* no sendMessage() call yet
NoSend == [outcome |-> "none", state |-> "none"]

\* the keys (remoteJid, id) getMessage is called with
MessageKeys == 1..MaxKeys

\* no getMessage() call yet; the record of a call keeps the key, whether
\* this.store was set, what the store held for the key, and the value returned
NoGet == [key |-> 0, stored |-> FALSE, held |-> "absent", value |-> "none"]

Init ==
    /\ sock = 0
    /\ store = 0
    /\ storeBound = 0
    /\ isInitialized = FALSE
    /\ retryCount = 0
    /\ telegramBridge = FALSE
    /\ telegramEnabled \in BOOLEAN
    /\ handle = [h \in HandleIds |-> "none"]
    /\ routed = {}
    /\ startCalls = 0
    /\ initTask = [pc |-> "idle", call |-> 0]
    /\ closeTask = IdleClose
    /\ openPc = [h \in HandleIds |-> "none"]
    /\ builtBy = {}
    /\ shutdownPc = "idle"
    /\ endCalls = {}
    /\ notifications = 0
    /\ prevDelay = 0
    /\ streak = 0
    /\ rbatch = NoBatch
    /\ rpc = "idle"
    /\ rpos = 0
    /\ rsub = 0
    /\ rphase = "none"
    /\ processed = {}
    /\ lookups = <<>>
    /\ lookupResults = <<>>
    /\ picLogs = {}
    /\ forwarded = <<>>
    /\ sendResult = NoSend
    /\ messages = [k \in MessageKeys |-> "absent"]
    /\ getResult = NoGet

Live(h) == handle[h] \in {"connecting", "open"}

LiveHandles == {h \in HandleIds : Live(h)}

Opened == {h \in HandleIds : openPc[h] # "none"}

Finished(pc) == pc \in {"idle", "done", "failed"}

(* ------------------------------------------------------------------ *)
(* startConnection (lines 56-107)                                      *)
(* ------------------------------------------------------------------ *)

\* What may happen once fetchLatestBaileysVersion has settled: it rejected; it
\* resolved and makeWASocket threw; store.bind threw; or the call went through.
StartOutcomes == {"versionFail", "socketFail", "bindFail", "ok"}

StartSyncKeepStore(k, outcome) ==
    /\ store' = IF outcome = "versionFail" \/ store # 0 THEN store ELSE k
    /\ sock' = IF outcome \in {"bindFail", "ok"} THEN k ELSE sock
    /\ handle' = IF outcome \in {"bindFail", "ok"}
                 THEN [handle EXCEPT ![k] = "connecting"]
                 ELSE handle
    /\ storeBound' = IF outcome = "ok" THEN k ELSE storeBound
    /\ routed' = IF outcome = "ok" THEN routed \cup {k} ELSE routed

\* Lines 78-99 of call k, which run without an await: this.store is replaced
\* first, then this.sock, then the store is bound and the router registered.
StartSync(k, outcome) ==
    /\ store' = IF outcome = "versionFail" THEN store ELSE k
    /\ sock' = IF outcome \in {"bindFail", "ok"} THEN k ELSE sock
    /\ handle' = IF outcome \in {"bindFail", "ok"}
                 THEN [handle EXCEPT ![k] = "connecting"]
                 ELSE handle
    /\ storeBound' = IF outcome = "ok" THEN k ELSE storeBound
    /\ routed' = IF outcome = "ok" THEN routed \cup {k} ELSE routed

(* ------------------------------------------------------------------ *)
(* initialize (lines 35-54)                                            *)
(* ------------------------------------------------------------------ *)

InitializedAlways(outcome) == TRUE

\* this.isInitialized = true (line 47) is reached only when the awaited
\* startConnection (line 45) returned; when it threw, the catch re-throws
InitializedAfter(outcome) == outcome = "ok"

\* initialize() is called: it awaits connectDb()
Initialize ==
    /\ initTask.pc = "idle"
    /\ initTask' = [initTask EXCEPT !.pc = "db"]
    /\ UNCHANGED <<sock, store, storeBound, isInitialized, retryCount, telegramBridge,
                   telegramEnabled, handle, routed, startCalls, closeTask, openPc,
                   builtBy, shutdownPc, endCalls, notifications, prevDelay, streak>>
    /\ UNCHANGED <<routerVars, apiVars>>

\* connectDb() settled: on success startConnection is invoked and awaits the
\* auth provider, on failure the error is re-thrown to the caller
InitDbSettled ==
    /\ initTask.pc = "db"
    /\ \E ok \in BOOLEAN :
          IF ok
          THEN /\ startCalls < MaxHandles
               /\ startCalls' = startCalls + 1
               /\ initTask' = [pc |-> "auth", call |-> startCalls + 1]
          ELSE /\ initTask' = [initTask EXCEPT !.pc = "failed"]
               /\ UNCHANGED startCalls
    /\ UNCHANGED <<sock, store, storeBound, isInitialized, retryCount, telegramBridge,
                   telegramEnabled, handle, routed, closeTask, openPc,
                   builtBy, shutdownPc, endCalls, notifications, prevDelay, streak>>
    /\ UNCHANGED <<routerVars, apiVars>>

\* the auth provider settled inside initialize's startConnection
InitAuthSettled ==
    /\ initTask.pc = "auth"
    /\ \E ok \in BOOLEAN :
          initTask' = [initTask EXCEPT !.pc = IF ok THEN "version" ELSE "failed"]
    /\ UNCHANGED <<sock, store, storeBound, isInitialized, retryCount, telegramBridge,
                   telegramEnabled, handle, routed, startCalls, closeTask, openPc,
                   builtBy, shutdownPc, endCalls, notifications, prevDelay, streak>>
    /\ UNCHANGED <<routerVars, apiVars>>

\* version discovery settled inside initialize's startConnection; the rest of
\* startConnection and of initialize runs without another suspension
InitVersionSettled ==
    /\ initTask.pc = "version"
    /\ \E outcome \in StartOutcomes :
          /\ StartSync(initTask.call, outcome)
          /\ initTask' = [initTask EXCEPT !.pc = IF outcome = "ok" THEN "done" ELSE "failed"]
          /\ isInitialized' = InitializedAfter(outcome)
    /\ UNCHANGED <<retryCount, telegramBridge, telegramEnabled, startCalls, closeTask,
                   openPc, builtBy, shutdownPc, endCalls, notifications, prevDelay,
                   streak>>
    /\ UNCHANGED <<routerVars, apiVars>>

(* ------------------------------------------------------------------ *)
(* handleConnectionUpdate (lines 189-260)                              *)
(* ------------------------------------------------------------------ *)

NotifiesAlways(reconnects, tb) == tb

\* telegramBridge.sendToAllUsers is called in the two branches that do not
\* reconnect (lines 224-226, 230-232), under if (this.telegramBridge), and not in
\* the branch that reconnects (lines 216-221)
Notifies(reconnects, tb) == ~reconnects /\ tb

\* connection === 'close' (lines 203-234) up to the first await, for a close
\* with lastDisconnect.error = cause: either retryCount++ and the handler
\* suspends in delay(retryDelay), or the terminal branch, which calls
\* sendToAllUsers when a bridge exists.
ClosePath(cause) ==
    IF ShouldReconnect(cause) /\ CanRetry(retryCount)
    THEN /\ retryCount' = retryCount + 1
         /\ closeTask' = [pc |-> "delay", cause |-> cause, rc |-> retryCount,
                          retryDelay |-> RetryDelay(retryCount + 1),
                          prev |-> prevDelay, call |-> 0, bridge |-> FALSE,
                          nth |-> streak + 1]
         /\ prevDelay' = RetryDelay(retryCount + 1)
         /\ streak' = streak + 1
         /\ notifications' = IF Notifies(TRUE, telegramBridge)
                             THEN notifications + 1
                             ELSE notifications
    ELSE /\ closeTask' = [pc |-> IF telegramBridge THEN "notify" ELSE "done",
                          cause |-> cause, rc |-> retryCount, retryDelay |-> 0,
                          prev |-> prevDelay, call |-> 0, bridge |-> telegramBridge,
                          nth |-> IF ShouldReconnect(cause) THEN streak + 1 ELSE 0]
         /\ notifications' = IF Notifies(FALSE, telegramBridge)
                             THEN notifications + 1
                             ELSE notifications
         /\ UNCHANGED <<retryCount, prevDelay, streak>>

\* connection === 'open' (lines 236-242) up to the first await: retryCount is
\* reset and the handler suspends in moduleLoader.loadModules()
OpenPath(h) ==
    /\ retryCount' = RetryCountOnOpen(retryCount)
    /\ openPc' = [openPc EXCEPT ![h] = "load"]
    /\ prevDelay' = 0
    /\ streak' = 0

\* The transport's next state of a handle that reports `connection`
TransportNext(h, connection) ==
    CASE connection = "open" -> [handle EXCEPT ![h] = "open"]
      [] connection = "close" -> [handle EXCEPT ![h] = "closed"]
      [] OTHER -> handle

\* Handle h emits connection.update {connection, lastDisconnect: {error: cause}};
\* the router (line 111) passes it to handleConnectionUpdate when it is registered
\* on h.  A handle reports 'connecting' while it connects, 'open' once, and
\* 'close' once, after which it emits nothing.
ConnectionUpdate(h, connection, cause) ==
    /\ CASE connection = "connecting" -> handle[h] = "connecting" /\ cause = "absent"
         [] connection = "open" -> /\ handle[h] = "connecting"
                                   /\ cause = "absent"
                                   /\ Cardinality(Opened) < MaxOpens
         [] connection = "close" -> Live(h)
    /\ handle' = TransportNext(h, connection)
    /\ IF h \in routed /\ IsClose(connection)
       THEN /\ Finished(closeTask.pc)
            /\ ClosePath(cause)
            /\ UNCHANGED openPc
       ELSE IF h \in routed /\ IsOpen(connection)
       THEN /\ OpenPath(h)
            /\ UNCHANGED <<closeTask, notifications>>
       ELSE UNCHANGED <<retryCount, closeTask, openPc, notifications, prevDelay, streak>>
    /\ UNCHANGED <<sock, store, storeBound, isInitialized, telegramBridge,
                   telegramEnabled, routed, startCalls, initTask, builtBy,
                   shutdownPc, endCalls>>
    /\ UNCHANGED <<routerVars, apiVars>>

\* delay(retryDelay) elapsed (line 220): startConnection is invoked (line 221).
\* The handler last read the disconnect cause at line 212, so the record stops
\* telling the transient causes apart from here on.
DelayElapsed ==
    /\ closeTask.pc = "delay"
    /\ startCalls < MaxHandles
    /\ startCalls' = startCalls + 1
    /\ closeTask' = [closeTask EXCEPT !.pc = "auth", !.call = startCalls + 1,
                                      !.cause = "absent"]
    /\ UNCHANGED <<sock, store, storeBound, isInitialized, retryCount, telegramBridge,
                   telegramEnabled, handle, routed, initTask, openPc, builtBy,
                   shutdownPc, endCalls, notifications, prevDelay, streak>>
    /\ UNCHANGED <<routerVars, apiVars>>

\* the auth provider settled inside the reconnect's startConnection; a rejection
\* leaves handleConnectionUpdate through its await at line 221
ReconnectAuthSettled ==
    /\ closeTask.pc = "auth"
    /\ \E ok \in BOOLEAN :
          closeTask' = [closeTask EXCEPT !.pc = IF ok THEN "version" ELSE "failed"]
    /\ UNCHANGED <<sock, store, storeBound, isInitialized, retryCount, telegramBridge,
                   telegramEnabled, handle, routed, startCalls, initTask, openPc,
                   builtBy, shutdownPc, endCalls, notifications, prevDelay, streak>>
    /\ UNCHANGED <<routerVars, apiVars>>

\* version discovery settled inside the reconnect's startConnection
ReconnectVersionSettled ==
    /\ closeTask.pc = "version"
    /\ \E outcome \in StartOutcomes :
          /\ StartSync(closeTask.call, outcome)
          /\ closeTask' = [closeTask EXCEPT !.pc = IF outcome = "ok" THEN "done" ELSE "failed"]
    /\ UNCHANGED <<isInitialized, retryCount, telegramBridge, telegramEnabled,
                   startCalls, initTask, openPc, builtBy, shutdownPc, endCalls,
                   notifications, prevDelay, streak>>
    /\ UNCHANGED <<routerVars, apiVars>>

\* telegramBridge.sendToAllUsers settled (lines 225, 231)
NotifySettled ==
    /\ closeTask.pc = "notify"
    /\ \E ok \in BOOLEAN :
          closeTask' = [closeTask EXCEPT !.pc = IF ok THEN "done" ELSE "failed"]
    /\ UNCHANGED <<sock, store, storeBound, isInitialized, retryCount, telegramBridge,
                   telegramEnabled, handle, routed, startCalls, initTask, openPc,
                   builtBy, shutdownPc, endCalls, notifications, prevDelay, streak>>
    /\ UNCHANGED <<routerVars, apiVars>>

\* moduleLoader.loadModules() settled (line 242); with the bridge enabled the
\* bridge is constructed if there is none and its initialize() awaited, else the
\* sync steps start (lines 244-253)
ModulesLoaded(h) ==
    /\ openPc[h] = "load"
    /\ \E ok \in BOOLEAN :
          IF ~ok \/ ~telegramEnabled
          THEN /\ openPc' = [openPc EXCEPT ![h] = "settled"]
               /\ UNCHANGED <<telegramBridge, builtBy>>
          ELSE IF NeedsBridge(telegramBridge)
          THEN /\ telegramBridge' = TRUE
               /\ builtBy' = builtBy \cup {h}
               /\ openPc' = [openPc EXCEPT ![h] = "init"]
          ELSE /\ openPc' = [openPc EXCEPT ![h] = "sync"]
               /\ UNCHANGED <<telegramBridge, builtBy>>
    /\ UNCHANGED <<sock, store, storeBound, isInitialized, retryCount,
                   telegramEnabled, handle, routed, startCalls, initTask, closeTask,
                   shutdownPc, endCalls, notifications, prevDelay, streak>>
    /\ UNCHANGED <<routerVars, apiVars>>

\* telegramBridge.initialize() and setupWhatsAppHandlers() settled (lines 247-248)
BridgeInitialized(h) ==
    /\ openPc[h] = "init"
    /\ \E ok \in BOOLEAN :
          openPc' = [openPc EXCEPT ![h] = IF ok THEN "sync" ELSE "settled"]
    /\ UNCHANGED <<sock, store, storeBound, isInitialized, retryCount, telegramBridge,
                   telegramEnabled, handle, routed, startCalls, initTask, closeTask,
                   builtBy, shutdownPc, endCalls, notifications, prevDelay, streak>>
    /\ UNCHANGED <<routerVars, apiVars>>

\* syncContacts(), updateTopicNames() and sendStartMessage() settled (lines 251-253)
BridgeSynced(h) ==
    /\ openPc[h] = "sync"
    /\ openPc' = [openPc EXCEPT ![h] = "settled"]
    /\ UNCHANGED <<sock, store, storeBound, isInitialized, retryCount, telegramBridge,
                   telegramEnabled, handle, routed, startCalls, initTask, closeTask,
                   builtBy, shutdownPc, endCalls, notifications, prevDelay, streak>>
    /\ UNCHANGED <<routerVars, apiVars>>

(* ------------------------------------------------------------------ *)
(* shutdown (lines 290-306)                                            *)
(* ------------------------------------------------------------------ *)

\* Lines 298-302: this.sock.end() when this.sock is set.  end() on a live handle
\* closes it and emits 'close' with no error, which the router handles at once;
\* end() on a closed handle does nothing.
EndSock ==
    /\ shutdownPc' = "done"
    /\ endCalls' = IF sock # 0 THEN endCalls \cup {sock} ELSE endCalls
    /\ IF sock # 0 /\ Live(sock)
       THEN /\ handle' = [handle EXCEPT ![sock] = "closed"]
            /\ IF sock \in routed
               THEN /\ Finished(closeTask.pc)
                    /\ ClosePath("absent")
               ELSE UNCHANGED <<retryCount, closeTask, notifications, prevDelay, streak>>
       ELSE UNCHANGED <<handle, retryCount, closeTask, notifications, prevDelay, streak>>

\* shutdown() is called: it awaits telegramBridge.shutdown() when a bridge
\* exists, else goes on to the handle
Shutdown ==
    /\ shutdownPc = "idle"
    /\ IF telegramBridge
       THEN /\ shutdownPc' = "bridge"
            /\ UNCHANGED <<handle, retryCount, closeTask, notifications, prevDelay,
                           streak, endCalls>>
       ELSE EndSock
    /\ UNCHANGED <<sock, store, storeBound, isInitialized, telegramBridge,
                   telegramEnabled, routed, startCalls, initTask, openPc, builtBy>>
    /\ UNCHANGED <<routerVars, apiVars>>

\* telegramBridge.shutdown() settled: on success the handle is ended, on failure
\* the catch at line 303 logs the error and shutdown returns
BridgeShutdownSettled ==
    /\ shutdownPc = "bridge"
    /\ \E ok \in BOOLEAN :
          IF ok
          THEN EndSock
          ELSE /\ shutdownPc' = "done"
               /\ UNCHANGED <<handle, retryCount, closeTask, notifications, prevDelay,
                              streak, endCalls>>
    /\ UNCHANGED <<sock, store, storeBound, isInitialized, telegramBridge,
                   telegramEnabled, routed, startCalls, initTask, openPc, builtBy>>
    /\ UNCHANGED <<routerVars, apiVars>>

(* ------------------------------------------------------------------ *)
(* The supervisor's specification                                      *)
(* ------------------------------------------------------------------ *)

Connections == {"connecting", "open", "close"}

Next ==
    \/ Initialize
    \/ InitDbSettled
    \/ InitAuthSettled
    \/ InitVersionSettled
    \/ \E h \in HandleIds, connection \in Connections, cause \in Causes :
          ConnectionUpdate(h, connection, cause)
    \/ DelayElapsed
    \/ ReconnectAuthSettled
    \/ ReconnectVersionSettled
    \/ NotifySettled
    \/ \E h \in HandleIds : ModulesLoaded(h)
    \/ \E h \in HandleIds : BridgeInitialized(h)
    \/ \E h \in HandleIds : BridgeSynced(h)
    \/ Shutdown
    \/ BridgeShutdownSettled

Spec == Init /\ [][Next]_vars

(* ------------------------------------------------------------------ *)
(* setupEventHandlers: the router callback (lines 109-187)             *)
(* ------------------------------------------------------------------ *)

KindOrderSwapped == <<"connection.update", "messages.upsert", "creds.update",
                      "messages.update", "message-receipt.update", "messages.reaction",
                      "presence.update", "chats.update", "chats.delete", "contacts.update",
                      "contacts.upsert", "call", "messaging-history.set",
                      "labels.association", "labels.edit">>

\* the event kinds, in the order in which the callback tests them
KindOrder == <<"connection.update", "creds.update", "messages.upsert",
               "messages.update", "message-receipt.update", "messages.reaction",
               "presence.update", "chats.update", "chats.delete", "contacts.update",
               "contacts.upsert", "call", "messaging-history.set",
               "labels.association", "labels.edit">>

Kinds == {KindOrder[i] : i \in 1..Len(KindOrder)}

\* contact.imgUrl in a contacts.update payload: the field is absent
\* (undefined), null, or a URL
ImgUrls == {"absent", "null", "url"}

\* the payloads a contacts.update event may carry
ContactLists == UNION {[1..n -> ImgUrls] : n \in 1..MaxContacts}

\* the payloads a call event may carry: calls 1..n in arrival order
CallLists == {[i \in 1..n |-> i] : n \in 1..MaxCallEvents}

\* the sets of kinds a batch may hold
KindSets == {K \in SUBSET Kinds : K # {} /\ Cardinality(K) <= MaxKinds}

\* the batches with the kinds K: a connection.update carries connection, and
\* lastDisconnect when connection is 'close'
BatchesOf(K) ==
    {[kinds |-> K, update |-> u[1], cause |-> u[2], contacts |-> cs, calls |-> cl] :
        u \in IF "connection.update" \in K
              THEN ({"connecting", "open"} \X {"absent"}) \cup ({"close"} \X Causes)
              ELSE {<<"none", "absent">>},
        cs \in IF "contacts.update" \in K THEN ContactLists ELSE {<<>>},
        cl \in IF "call" \in K THEN CallLists ELSE {<<>>}}

\* the event batches the transport may deliver
Batches == UNION {BatchesOf(K) : K \in KindSets}

NextLookupNotAbsent(contacts, j) ==
    IF \E i \in (j + 1)..Len(contacts) : contacts[i] # "absent"
    THEN CHOOSE i \in (j + 1)..Len(contacts) :
            /\ contacts[i] # "absent"
            /\ \A k \in (j + 1)..(i - 1) : contacts[k] = "absent"
    ELSE 0

\* the first contact after the j-th whose imgUrl is a URL, for which line 152
\* calls sock.profilePictureUrl and awaits it; 0 when there is none
NextLookup(contacts, j) ==
    IF \E i \in (j + 1)..Len(contacts) : contacts[i] = "url"
    THEN CHOOSE i \in (j + 1)..Len(contacts) :
            /\ contacts[i] = "url"
            /\ \A k \in (j + 1)..(i - 1) : contacts[k] # "url"
    ELSE 0

\* where handleConnectionUpdate first suspends for the batch's connection.update:
\* in the backoff delay (line 220), in sendToAllUsers (lines 225, 231), in
\* loadModules (line 242), or nowhere
FirstPhase(b) ==
    CASE b.update = "close" /\ ShouldReconnect(b.cause) /\ CanRetry(retryCount) -> "backoff"
      [] b.update = "close" /\ telegramBridge -> "notify"
      [] b.update = "open" -> "open"
      [] OTHER -> "none"

ForwardsCallsAlways(tb) == TRUE

\* if (this.telegramBridge), line 167: the calls are forwarded when a bridge exists
ForwardsCalls(tb) == tb

\* whether the handling of a kind of the batch awaits a collaborator
Suspends(b, kind) ==
    CASE kind = "connection.update" -> FirstPhase(b) # "none"
      [] kind = "creds.update" -> TRUE
      [] kind = "messages.upsert" -> TRUE
      [] kind = "contacts.update" -> NextLookup(b.contacts, 0) # 0
      [] kind = "call" -> ForwardsCalls(telegramBridge)
      [] OTHER -> FALSE

Present(b, i) == KindOrder[i] \in b.kinds

\* the places at or after pos whose kind is present and suspends
StopsFrom(b, pos) ==
    {i \in pos..Len(KindOrder) : Present(b, i) /\ Suspends(b, KindOrder[i])}

\* the place of the first kind at or after pos that is present and suspends;
\* Len(KindOrder) + 1 when the callback runs to its end
NextStop(b, pos) ==
    IF StopsFrom(b, pos) = {}
    THEN Len(KindOrder) + 1
    ELSE CHOOSE i \in StopsFrom(b, pos) : \A k \in StopsFrom(b, pos) : i <= k

\* the present kinds in places from..(to - 1): they are handled without suspension
Passed(b, from, to) == {KindOrder[i] : i \in {k \in from..(to - 1) : Present(b, k)}}

\* The callback runs on from place pos with the kinds in `done` handled: it
\* handles the kinds that do not suspend, and either returns or issues the call
\* of the next kind that suspends and awaits it.
RunFrom(b, pos, done) ==
    LET stop == NextStop(b, pos)
        kind == KindOrder[stop]
    IN  /\ processed' = done \cup Passed(b, pos, stop)
        /\ rpos' = stop
        /\ IF stop > Len(KindOrder)
           THEN /\ rpc' = "returned"
                /\ rsub' = 0
                /\ rphase' = "none"
                /\ UNCHANGED <<lookups, forwarded>>
           ELSE /\ rpc' = "await"
                /\ rphase' = IF kind = "connection.update" THEN FirstPhase(b) ELSE "none"
                /\ rsub' = CASE kind = "contacts.update" -> NextLookup(b.contacts, 0)
                             [] kind = "call" -> 1
                             [] OTHER -> 0
                /\ lookups' = IF kind = "contacts.update"
                              THEN Append(lookups, NextLookup(b.contacts, 0))
                              ELSE lookups
                /\ forwarded' = IF kind = "call"
                                THEN Append(forwarded, b.calls[1])
                                ELSE forwarded

Awaiting(kind) == rpc = "await" /\ KindOrder[rpos] = kind

\* the transport invokes the callback passed to sock.ev.process with a batch
Deliver ==
    /\ rpc = "idle"
    /\ \E b \in Batches :
          /\ rbatch' = b
          /\ RunFrom(b, 1, {})
    /\ UNCHANGED <<picLogs, lookupResults>>
    /\ UNCHANGED <<lifeVars, apiVars>>

\* the backoff delay of the awaited handleConnectionUpdate elapsed: it goes on
\* to startConnection
RouterBackoffElapsed ==
    /\ Awaiting("connection.update")
    /\ rphase = "backoff"
    /\ rphase' = "reconnect"
    /\ UNCHANGED <<rbatch, rpc, rpos, rsub, processed, lookups, lookupResults, picLogs,
                   forwarded>>
    /\ UNCHANGED <<lifeVars, apiVars>>

\* the awaited handleConnectionUpdate settled (line 112): the callback goes on
\* to the next kind, or is left by the rejection
ConnectionUpdateSettled ==
    /\ Awaiting("connection.update")
    /\ rphase \in {"reconnect", "notify", "open"}
    /\ \E ok \in BOOLEAN :
          IF ok
          THEN RunFrom(rbatch, rpos + 1, processed \cup {"connection.update"})
          ELSE /\ rpc' = "rejected"
               /\ UNCHANGED <<rpos, rsub, rphase, processed, lookups, forwarded>>
    /\ UNCHANGED <<rbatch, picLogs, lookupResults>>
    /\ UNCHANGED <<lifeVars, apiVars>>

\* the awaited saveCreds() settled (line 116)
CredsSaved ==
    /\ Awaiting("creds.update")
    /\ \E ok \in BOOLEAN :
          IF ok
          THEN RunFrom(rbatch, rpos + 1, processed \cup {"creds.update"})
          ELSE /\ rpc' = "rejected"
               /\ UNCHANGED <<rpos, rsub, rphase, processed, lookups, forwarded>>
    /\ UNCHANGED <<rbatch, picLogs, lookupResults>>
    /\ UNCHANGED <<lifeVars, apiVars>>

\* the awaited messageHandler.handleMessages settled (line 120)
MessagesHandled ==
    /\ Awaiting("messages.upsert")
    /\ \E ok \in BOOLEAN :
          IF ok
          THEN RunFrom(rbatch, rpos + 1, processed \cup {"messages.upsert"})
          ELSE /\ rpc' = "rejected"
               /\ UNCHANGED <<rpos, rsub, rphase, processed, lookups, forwarded>>
    /\ UNCHANGED <<rbatch, picLogs, lookupResults>>
    /\ UNCHANGED <<lifeVars, apiVars>>

\* the awaited sock.profilePictureUrl(contact.id).catch(() => null) settled
\* (lines 150-156): with a URL, with null, or rejected and turned into null
LookupSettled ==
    /\ Awaiting("contacts.update")
    /\ \E result \in {"url", "null", "rejected"} :
          /\ lookupResults' = Append(lookupResults, result)
          /\ picLogs' = IF result = "url" THEN picLogs \cup {rsub} ELSE picLogs
    /\ IF NextLookup(rbatch.contacts, rsub) # 0
       THEN /\ rsub' = NextLookup(rbatch.contacts, rsub)
            /\ lookups' = Append(lookups, NextLookup(rbatch.contacts, rsub))
            /\ UNCHANGED <<rpc, rpos, rphase, processed, forwarded>>
       ELSE RunFrom(rbatch, rpos + 1, processed \cup {"contacts.update"})
    /\ UNCHANGED rbatch
    /\ UNCHANGED <<lifeVars, apiVars>>

\* the awaited telegramBridge.handleCallNotification(call) settled (line 169)
CallForwarded ==
    /\ Awaiting("call")
    /\ \E ok \in BOOLEAN :
          IF ~ok
          THEN /\ rpc' = "rejected"
               /\ UNCHANGED <<rpos, rsub, rphase, processed, lookups, forwarded>>
          ELSE IF rsub < Len(rbatch.calls)
          THEN /\ rsub' = rsub + 1
               /\ forwarded' = Append(forwarded, rbatch.calls[rsub + 1])
               /\ UNCHANGED <<rpc, rpos, rphase, processed, lookups>>
          ELSE RunFrom(rbatch, rpos + 1, processed \cup {"call"})
    /\ UNCHANGED <<rbatch, picLogs, lookupResults>>
    /\ UNCHANGED <<lifeVars, apiVars>>

\* The router is looked at on a handle that is open: initialize has returned,
\* handle 1 has opened, and the bridge exists or not.
InitRouter ==
    /\ sock = 1
    /\ store = 1
    /\ storeBound = 1
    /\ isInitialized = TRUE
    /\ retryCount = 0
    /\ telegramBridge \in BOOLEAN
    /\ telegramEnabled = telegramBridge
    /\ handle = [h \in HandleIds |-> IF h = 1 THEN "open" ELSE "none"]
    /\ routed = {1}
    /\ startCalls = 1
    /\ initTask = [pc |-> "done", call |-> 1]
    /\ closeTask = IdleClose
    /\ openPc = [h \in HandleIds |-> IF h = 1 THEN "settled" ELSE "none"]
    /\ builtBy = IF telegramBridge THEN {1} ELSE {}
    /\ shutdownPc = "idle"
    /\ endCalls = {}
    /\ notifications = 0
    /\ prevDelay = 0
    /\ streak = 0
    /\ rbatch = NoBatch
    /\ rpc = "idle"
    /\ rpos = 0
    /\ rsub = 0
    /\ rphase = "none"
    /\ processed = {}
    /\ lookups = <<>>
    /\ lookupResults = <<>>
    /\ picLogs = {}
    /\ forwarded = <<>>
    /\ sendResult = NoSend
    /\ messages = [k \in MessageKeys |-> "absent"]
    /\ getResult = NoGet

NextRouter ==
    \/ Deliver
    \/ RouterBackoffElapsed
    \/ ConnectionUpdateSettled
    \/ CredsSaved
    \/ MessagesHandled
    \/ LookupSettled
    \/ CallForwarded

SpecRouter == InitRouter /\ [][NextRouter]_vars

(* ------------------------------------------------------------------ *)
(* sendMessage (lines 270-283)                                         *)
(* ------------------------------------------------------------------ *)

\* sendMessage() is called: it throws 'WhatsApp socket not initialized' when
\* this.sock is null, and otherwise calls this.sock.sendMessage, whatever the
\* transport state of that handle is.  The record keeps the state the handle
\* this.sock was in when the send was issued on it.
SendMessage ==
    /\ sendResult' = IF sock = 0
                     THEN [outcome |-> "thrown", state |-> "none"]
                     ELSE [outcome |-> "forwarded", state |-> handle[sock]]
    /\ UNCHANGED <<lifeVars, routerVars, messages, getResult>>

\* the supervisor with a caller of sendMessage
NextApi ==
    \/ Next
    \/ SendMessage

SpecApi == Init /\ [][NextApi]_vars

(* ------------------------------------------------------------------ *)
(* getMessage (lines 262-268)                                          *)
(* ------------------------------------------------------------------ *)

\* what the store holds for a key: no record ("absent"), or a record whose
\* message field is null or a message content
Contents == {"null", "m1", "m2"}

\* this.store.loadMessage(key.remoteJid, key.id) of the in-memory store:
\* the record stored for the key, undefined when there is none
LoadMessage(msgs, key) ==
    IF msgs[key] = "absent"
    THEN [defined |-> FALSE, message |-> "undefined"]
    ELSE [defined |-> TRUE, message |-> msgs[key]]

MessageOfUnguarded(msg) == IF msg.defined THEN msg.message ELSE "TypeError"

\* msg?.message
MessageOf(msg) == IF msg.defined THEN msg.message ELSE "undefined"

\* value || undefined: null and undefined are falsy, a message content is an
\* object and is truthy
OrUndefined(value) == IF value \in {"null", "undefined"} THEN "undefined" ELSE value

\* the value getMessage(key) returns; "TypeError" stands for a throw
GetMessageValue(st, msgs, key) ==
    IF st # 0
    THEN OrUndefined(MessageOf(LoadMessage(msgs, key)))
    ELSE "undefined"

\* getMessage(key) is called and returns
GetMessage ==
    /\ \E key \in MessageKeys :
          getResult' = [key |-> key, stored |-> store # 0, held |-> messages[key],
                        value |-> GetMessageValue(store, messages, key)]
    /\ UNCHANGED <<lifeVars, routerVars, sendResult, messages>>

\* the store, bound to the handle's event stream (line 97), records a message
\* under a key
StoreUpsert ==
    /\ store # 0
    /\ storeBound = store
    /\ \E key \in MessageKeys, content \in Contents :
          messages' = [messages EXCEPT ![key] = content]
    /\ UNCHANGED <<lifeVars, routerVars, sendResult, getResult>>

\* getMessage is looked at in the state the constructor leaves (this.store is
\* null) and on a handle that is open (this.store is bound)
InitStore == Init \/ InitRouter

NextStore ==
    \/ GetMessage
    \/ StoreUpsert

SpecStore == InitStore /\ [][NextStore]_vars

(* ------------------------------------------------------------------ *)
(* Properties of the supervisor                                        *)
(* ------------------------------------------------------------------ *)

\* a startConnection activation is between its invocation and its return
Starting == initTask.pc \in {"auth", "version"} \/ closeTask.pc \in {"auth", "version"}

\* the latest 'close' activation has scheduled or made a startConnection call
Reconnecting == closeTask.pc \in {"delay", "auth", "version"} \/ closeTask.call # 0

\* the latest 'close' activation neither scheduled nor made a startConnection call
NoStart == closeTask.call = 0 /\ closeTask.pc \notin {"delay", "auth", "version"}

\* a logout close or a close at the retry ceiling has been handled
Terminal ==
    /\ closeTask.pc # "idle"
    /\ closeTask.cause = "boomLoggedOut" \/ closeTask.rc >= maxRetries

\* A 'close' is only ever delivered while no earlier 'close' activation is in
\* flight, which is what lets one record stand for the 'close' activations.
OneCloseActivation ==
    \A h \in HandleIds : Live(h) /\ h \in routed => Finished(closeTask.pc)

\* C1: in every reachable state at most one handle is connecting or open, and
\* no handle is connecting or open while a startConnection call is under way
\* (a new handle is only made once the previous one has closed).
C1_AtMostOneLiveHandle ==
    /\ Cardinality(LiveHandles) <= 1
    /\ Starting => LiveHandles = {}
    /\ \A h \in HandleIds : Live(h) => h = sock

C1_Witness ==
    /\ sock = 3
    /\ handle[1] = "closed"
    /\ handle[2] = "closed"
    /\ handle[3] = "open"
    /\ shutdownPc = "done"

\* C2 as stated: a logout close never leads to startConnection, whatever
\* retryCount is, and every close with another cause leads to a reconnect.
C2_Original ==
    closeTask.pc # "idle" =>
        IF closeTask.cause = "boomLoggedOut" THEN NoStart ELSE Reconnecting

\* C2, amended: a logout close never leads to startConnection, whatever
\* retryCount is; a close with any other cause (an absent error and an error
\* that is not a Boom included) leads to a reconnect exactly when retryCount is
\* below maxRetries at the close, and to none when it has reached maxRetries.
C2_Amended ==
    closeTask.pc # "idle" =>
        /\ closeTask.cause = "boomLoggedOut" => NoStart
        /\ closeTask.cause # "boomLoggedOut" /\ closeTask.rc < maxRetries => Reconnecting
        /\ closeTask.cause # "boomLoggedOut" /\ closeTask.rc >= maxRetries => NoStart

C2_Witness ==
    /\ closeTask.cause = "boomLoggedOut"
    /\ closeTask.rc = 3
    /\ closeTask.pc = "done"
    /\ startCalls = 4

\* C3 as stated: the transient close that follows 5 consecutive transient closes
\* with a reconnect each makes no startConnection call and sendToAllUsers has
\* been called exactly once.
C3_Original ==
    closeTask.nth = 6 => NoStart /\ notifications = 1

\* C3, amended: the first 5 consecutive transient closes each lead to a
\* reconnect; the 6th makes no startConnection call, and sendToAllUsers is called
\* exactly once if the bridge exists at that close and not at all otherwise.
C3_Amended ==
    /\ closeTask.nth \in 1..5 => Reconnecting
    /\ closeTask.nth = 6 =>
          /\ NoStart
          /\ notifications = IF closeTask.bridge THEN 1 ELSE 0
    /\ closeTask.nth <= 6

C3_Witness ==
    /\ closeTask.nth = 6
    /\ closeTask.bridge
    /\ notifications = 1
    /\ closeTask.pc = "done"

\* the delays of C4, by the rank of the reconnect
BackoffTable == <<2000, 4000, 8000, 16000, 30000>>

\* C4: the n-th consecutive reconnect (n = 1..5) waits min(1000 * 2^n, 30000) ms,
\* that is 2000, 4000, 8000, 16000, 30000; the delay is never below that of the
\* reconnect before it and never above 30000.
C4_Backoff ==
    closeTask.pc = "delay" =>
        /\ closeTask.nth \in 1..5
        /\ closeTask.retryDelay = BackoffTable[closeTask.nth]
        /\ closeTask.prev <= closeTask.retryDelay
        /\ closeTask.retryDelay <= 30000
        /\ closeTask.nth > 1 => closeTask.prev = BackoffTable[closeTask.nth - 1]

C4_Witness ==
    /\ closeTask.pc = "delay"
    /\ closeTask.nth = 5
    /\ closeTask.retryDelay = 30000
    /\ closeTask.prev = 16000

\* C5: every 'open' update the router handles sets retryCount to 0, and the
\* transient close of a handle that had opened sets retryCount to 1 and
\* schedules one reconnect with a delay of 2000 ms.
C5_OpenResets ==
    [][\A h \in routed :
          /\ handle[h] = "connecting" /\ handle'[h] = "open" => retryCount' = 0
          /\ (handle[h] = "open" /\ handle'[h] = "closed"
                /\ closeTask'.cause # "boomLoggedOut")
             => /\ retryCount' = 1
                /\ closeTask'.pc = "delay"
                /\ closeTask'.retryDelay = 2000
                /\ closeTask'.call = 0]_vars

C5_Witness ==
    /\ sock = 3
    /\ openPc[3] # "none"
    /\ openPc[1] = "none"
    /\ openPc[2] = "none"
    /\ handle[3] = "closed"
    /\ closeTask.pc = "delay"
    /\ closeTask.retryDelay = 2000
    /\ retryCount = 1

\* C6 as stated: once a logout close or a close at the retry ceiling has been
\* handled, no step replaces this.sock or invokes startConnection, and after a
\* logout close sendToAllUsers has been called exactly once.
C6_Original ==
    [][/\ Terminal => sock' = sock /\ startCalls' = startCalls /\ Terminal'
       /\ Terminal' /\ closeTask'.cause = "boomLoggedOut" => notifications' = 1]_vars

\* C6, amended: once a logout close or a close at the retry ceiling has been
\* handled, no step replaces this.sock or invokes startConnection; sendToAllUsers
\* has then been called exactly once if the bridge existed at that close, and not
\* at all otherwise.
C6_Amended ==
    [][/\ Terminal => sock' = sock /\ startCalls' = startCalls /\ Terminal'
       /\ Terminal' => notifications' = IF closeTask'.bridge THEN 1 ELSE 0
       /\ ~Terminal' => notifications' = 0]_vars

C6_Witness ==
    /\ closeTask.cause = "boomLoggedOut"
    /\ closeTask.pc = "done"
    /\ closeTask.bridge
    /\ notifications = 1
    /\ shutdownPc = "done"

\* C7: outside the terminal state the supervisor never comes to rest without a
\* live handle: once initialize has returned, if no 'close' activation is
\* pending and no handle is connecting or open, a logout close or a close at the
\* retry ceiling has been handled.
C7_NeverRestsWithoutHandle ==
    initTask.pc = "done" /\ Finished(closeTask.pc) /\ LiveHandles = {} => Terminal

\* C8: over any run the bridge is constructed at most once; an 'open' activation
\* that finds the bridge goes to the sync steps without constructing or
\* initializing one.
C8_BridgeOnce ==
    /\ Cardinality(builtBy) <= 1
    /\ \A h \in HandleIds : openPc[h] = "init" => builtBy = {h}
    /\ builtBy # {} => telegramBridge /\ telegramEnabled
    /\ telegramBridge => builtBy # {}

C8_Witness ==
    \E h1, h2 \in HandleIds :
        /\ h1 < h2
        /\ builtBy = {h1}
        /\ openPc[h2] = "sync"

\* C10: the step on which shutdown() returns has called end() on the handle
\* whenever this.sock is set, also when the bridge teardown failed.
C10_ShutdownEndsHandle ==
    [][shutdownPc # "done" /\ shutdownPc' = "done" /\ sock # 0
          => sock \in endCalls']_vars

\* C14: when a setup step of initialize() fails (connectDb, the auth provider,
\* version discovery, makeWASocket, store.bind) the error is thrown to the
\* caller, the bot is not marked initialized, and nothing is retried:
\* startConnection was invoked at most once, by initialize itself, no router is
\* registered and no 'close' handling ever starts.
C14_SetupFailurePropagates ==
    initTask.pc = "failed" =>
        /\ ~isInitialized
        /\ startCalls <= 1
        /\ startCalls = initTask.call
        /\ routed = {}
        /\ closeTask = IdleClose

C14_Witness ==
    /\ initTask = [pc |-> "failed", call |-> 1]
    /\ store = 1
    /\ sock = 0
    /\ shutdownPc = "done"

\* C15: sendToAllUsers is only called by a close handling that reaches the
\* terminal state; a close handling that schedules a reconnect calls it not, and
\* none has been called before it.
C15_NotifyOnlyTerminal ==
    [][/\ notifications' # notifications
          => /\ Terminal'
             /\ NoStart'
             /\ closeTask'.pc = "notify"
             /\ notifications' = notifications + 1
       /\ closeTask'.pc = "delay" /\ closeTask.pc # "delay"
          => notifications' = notifications /\ notifications = 0]_vars

C15_Witness ==
    /\ closeTask.pc = "notify"
    /\ closeTask.rc = maxRetries
    /\ closeTask.cause = "plainError"
    /\ notifications = 1

\* C19: in every reachable state retryCount is between 0 and maxRetries (5):
\* it is only incremented when it is below maxRetries and only reset to 0.
C19_RetryCountBounded ==
    /\ retryCount \in 0..maxRetries
    /\ maxRetries = 5
    /\ closeTask.rc \in 0..maxRetries

C19_Witness ==
    /\ retryCount = maxRetries
    /\ closeTask.rc = maxRetries
    /\ closeTask.pc = "done"
    /\ closeTask.nth = 6
    /\ ~closeTask.bridge

\* C20 as stated: whenever this.sock is set, this.store is the store made by
\* the startConnection call that made the handle, and it is bound to that
\* handle's event stream.
C20_Original ==
    sock # 0 => store = sock /\ storeBound = sock

\* C20, amended: whenever this.sock is a handle that is connecting or open and
\* has the router registered (its startConnection call returned), this.store is
\* the store made by the same call and is bound to that handle; this.store is
\* never older than this.sock, and no store is bound to a handle newer than
\* this.sock.  They differ only after a startConnection call that threw:
\* when makeWASocket threw, this.store is the new, unbound store of the latest
\* call while this.sock is still the closed handle before it; when store.bind
\* threw, handle and store are of the same call but the store is not bound and
\* no router is registered.
C20_Amended ==
    sock # 0 =>
        /\ sock \in routed /\ Live(sock) => store = sock /\ storeBound = sock
        /\ store >= sock
        /\ storeBound <= sock
        /\ store # sock => ~Live(sock) /\ store = startCalls /\ storeBound = sock
        /\ store = sock /\ storeBound # sock => sock \notin routed

C20_Witness ==
    /\ sock = 2
    /\ store = 2
    /\ storeBound = 2
    /\ handle[1] = "closed"
    /\ handle[2] = "open"

(* ------------------------------------------------------------------ *)
(* Properties of the router                                            *)
(* ------------------------------------------------------------------ *)

\* the kinds of the batch whose handling was started
Dispatched ==
    processed \cup (IF rpc \in {"await", "rejected"} THEN {KindOrder[rpos]} ELSE {})

\* C9: when the handler of one kind fails, the other kinds present in the batch
\* are still dispatched: a callback that a handler's error has left has
\* dispatched every kind of its batch.
C9_FailureIsolated ==
    rpc = "rejected" => rbatch.kinds \subseteq Dispatched

(* ------------------------------------------------------------------ *)
(* Properties of the public calls                                      *)
(* ------------------------------------------------------------------ *)

\* C11: sendMessage issues a send on a handle only when that handle is open;
\* with no open handle (before the first establish, after a close, in the
\* terminal state) it throws and no send is issued on any handle.
C11_SendOnlyWhenOpen ==
    sendResult.outcome = "forwarded" => sendResult.state = "open"

\* the kinds of the batch, other than connection.update, whose handling has not
\* completed
PendingOthers == (rbatch.kinds \ {"connection.update"}) \ processed

\* a step of the handling of a kind other than connection.update
OtherKindStep == CredsSaved \/ MessagesHandled \/ LookupSettled \/ CallForwarded

\* C12: while the handling of a batch's connection.update is suspended in the
\* backoff delay or in the startConnection call that follows it, the handling of
\* the other kinds of the batch is not blocked: if any of them is still to be
\* handled, a step of their handling can be taken before the delay elapses.
C12_BackoffDoesNotBlock ==
    /\ Awaiting("connection.update")
    /\ rphase \in {"backoff", "reconnect"}
    /\ PendingOthers \cap {"creds.update", "messages.upsert", "contacts.update", "call"} # {}
    => ENABLED OtherKindStep

\* the kinds the callback tests after creds.update
KindsAfterCreds == Kinds \ {"connection.update", "creds.update"}

\* C13: in a batch that holds creds.update, the handling of a later kind of the
\* batch has only started once saveCreds() has completed.
C13_CredsSavedFirst ==
    "creds.update" \in rbatch.kinds /\ Dispatched \cap KindsAfterCreds # {}
        => "creds.update" \in processed

C13_Witness ==
    /\ rbatch.kinds = {"creds.update", "messages.upsert"}
    /\ "creds.update" \in processed
    /\ Awaiting("messages.upsert")

\* C16: getMessage never raises; for a key with no record in the store, and
\* when there is no store yet, it returns undefined; for a key whose record
\* holds a message content it returns that content (a record whose message
\* field is null reads as undefined).
C16_GetMessage ==
    getResult.key # 0 =>
        /\ getResult.value # "TypeError"
        /\ ~getResult.stored \/ getResult.held \in {"absent", "null"}
              => getResult.value = "undefined"
        /\ getResult.stored /\ getResult.held \in {"m1", "m2"}
              => getResult.value = getResult.held

C16_Witness ==
    /\ store # 0
    /\ messages[1] = "m2"
    /\ getResult = [key |-> 2, stored |-> TRUE, held |-> "absent", value |-> "undefined"]

\* the contacts of the batch whose imgUrl is present and not null
UrlContacts == {i \in 1..Len(rbatch.contacts) : rbatch.contacts[i] = "url"}

\* C17: sock.profilePictureUrl is called for a contact of a contacts.update
\* exactly when its imgUrl is present and not null, once, in payload order; a
\* lookup that rejects or resolves to null is swallowed: it logs no new profile
\* pic, the next lookup is issued, and after the last one the callback goes on
\* to the remaining kinds.
C17_ProfilePicLookups ==
    /\ \A i \in 1..Len(lookups) : lookups[i] \in UrlContacts
    /\ \A i, j \in 1..Len(lookups) : i < j => lookups[i] < lookups[j]
    /\ "contacts.update" \in processed => {lookups[i] : i \in 1..Len(lookups)} = UrlContacts
    /\ Len(lookupResults) = Len(lookups) - (IF Awaiting("contacts.update") THEN 1 ELSE 0)
    /\ picLogs = {lookups[i] : i \in {k \in 1..Len(lookupResults) : lookupResults[k] = "url"}}
    /\ rpc = "rejected" => KindOrder[rpos] # "contacts.update"
    /\ "contacts.update" \in Dispatched /\ ~Awaiting("contacts.update")
          => "contacts.update" \in processed

C17_Witness ==
    /\ rbatch.contacts = <<"url", "url">>
    /\ lookupResults = <<"rejected", "url">>
    /\ picLogs = {2}
    /\ Awaiting("call")

\* C18: the calls of a batch are passed to telegramBridge.handleCallNotification
\* one at a time, in arrival order, when a bridge exists as the call kind is
\* dispatched: each is passed once the one before it has been handled, and all
\* have been passed when the kind is handled; without a bridge none is passed.
C18_CallsForwardedInOrder ==
    /\ Len(forwarded) <= Len(rbatch.calls)
    /\ \A i \in 1..Len(forwarded) : forwarded[i] = rbatch.calls[i]
    /\ ~telegramBridge => forwarded = <<>>
    /\ telegramBridge /\ "call" \in Dispatched => Len(forwarded) >= 1
    /\ telegramBridge /\ "call" \in processed => forwarded = rbatch.calls
    /\ Awaiting("call") => Len(forwarded) = rsub

C18_Witness ==
    /\ telegramBridge
    /\ rbatch.calls = <<1, 2>>
    /\ forwarded = <<1, 2>>
    /\ "call" \in processed

====
